---- MODULE Spec2Model ----
(***************************************************************************)
(* Model of frontend/__main__.py: the configuration editor (load, input,   *)
(* save, undo, reset on /project/models.json, with the title's unsaved-    *)
(* changes marker) and the podcast request dispatcher (generate_podcast).  *)
(* Texts are sequences of one-character strings.                           *)
(***************************************************************************)
EXTENDS Integers, Sequences, FiniteSets, TLC

\* ------------------------------------------------------------------ bounds

\* Longest text typed into the editor.
MaxLen == 3

\* Longest recipient address typed into the "Recipient email" box.
MaxRecipLen == 2

\* Characters of the texts a client submits as the editor's value: JSON
\* tokens and the two line-break characters.
Alphabet == {"[", "]", "1", "\r", "\n"}

Texts == UNION {[1..n -> Alphabet] : n \in 0..MaxLen}

\* Browser sessions; the sequential specification drives only session 1.
Sessions == {1, 2}

\* ------------------------------------------------------------ json.loads

\* json.decoder.WHITESPACE: blank, tab, newline, carriage return.
WS == {" ", "\t", "\n", "\r"}

Digits == {"0", "1", "2", "3", "4", "5", "6", "7", "8", "9"}

\* _w(s, i).end(): the first position at or after i that holds no whitespace.
RECURSIVE SkipWs(_, _)
SkipWs(s, i) ==
    IF i <= Len(s) /\ s[i] \in WS THEN SkipWs(s, i + 1) ELSE i

\* The run of digits starting at i ends before the position returned.
RECURSIVE SkipDigits(_, _)
SkipDigits(s, i) ==
    IF i <= Len(s) /\ s[i] \in Digits THEN SkipDigits(s, i + 1) ELSE i

\* NUMBER_RE at position i, integer part: -?(0|[1-9][0-9]*). The position after
\* the match, or 0 when nothing matches.
ScanNumber(s, i) ==
    LET j == IF i <= Len(s) /\ s[i] = "-" THEN i + 1 ELSE i
    IN  IF j > Len(s) \/ s[j] \notin Digits THEN 0
        ELSE IF s[j] = "0" THEN j + 1
        ELSE SkipDigits(s, j + 1)

\* scan_once and JSONArray over arrays and integers: the position after the
\* value that starts at i, or 0 where the decoder raises JSONDecodeError.
RECURSIVE ScanOnce(_, _)
RECURSIVE ArrayElems(_, _)
ScanOnce(s, i) ==
    IF i > Len(s) THEN 0
    ELSE IF s[i] = "["
        THEN LET j == SkipWs(s, i + 1)
             IN  IF j <= Len(s) /\ s[j] = "]" THEN j + 1 ELSE ArrayElems(s, j)
    ELSE IF s[i] = "-" \/ s[i] \in Digits THEN ScanNumber(s, i)
    ELSE 0

\* JSONArray's loop: a value, then "]" (done) or "," and the next value.
ArrayElems(s, i) ==
    LET e == ScanOnce(s, i)
    IN  IF e = 0 THEN 0
        ELSE LET j == SkipWs(s, e)
             IN  IF j > Len(s) THEN 0
                 ELSE IF s[j] = "]" THEN j + 1
                 ELSE IF s[j] = "," THEN ArrayElems(s, SkipWs(s, j + 1))
                 ELSE 0

\* json.loads(config_txt) returns (TRUE) or raises (FALSE): one value between
\* optional whitespace, and nothing after it.
json_loads_ok(s) ==
    LET e == ScanOnce(s, SkipWs(s, 1))
    IN  e # 0 /\ SkipWs(s, e) = Len(s) + 1

\* ------------------------------------------------------------ title marker

\* The green circle U+1F7E2 and the orange circle U+1F7E0, as the two UTF-16
\* code units JavaScript strings hold them in.
GREEN == <<"\\uD83D", "\\uDFE2">>
ORANGE == <<"\\uD83D", "\\uDFE0">>

\* "models.json " and the marker; the text before the marker is kept as one
\* unit, the marker as its two code units.
PSEUDO_FILE_NAME == <<"models.json ">> \o GREEN

\* String.prototype.endsWith
EndsWith(str, suffix) ==
    /\ Len(suffix) <= Len(str)
    /\ SubSeq(str, Len(str) - Len(suffix) + 1, Len(str)) = suffix

\* String.prototype.slice(0, -k)
SliceOff(str, k) ==
    IF Len(str) > k THEN SubSeq(str, 1, Len(str) - k) ELSE <<>>

CONFIG_CHANGES_JS(innerHTML) ==
    IF ~EndsWith(innerHTML, ORANGE) THEN SliceOff(innerHTML, 2) \o ORANGE
    ELSE innerHTML

\* The save script with the edit script's body.
SAVE_CHANGES_JS_Swapped(innerHTML) == CONFIG_CHANGES_JS(innerHTML)

SAVE_CHANGES_JS(innerHTML) ==
    IF ~EndsWith(innerHTML, GREEN) THEN SliceOff(innerHTML, 2) \o GREEN
    ELSE innerHTML

\* --------------------------------------------------------------- variables

VARIABLES
    disk,             \* content of /project/models.json
    STARTING_CONFIG,  \* module global read once at import
    editor,           \* editor[s]: value of the gr.Code component in session s
    title,            \* title[s]: innerHTML of div#config-toolbar p in session s
    pc,               \* pc[s]: "closed", "idle", or "saving" (file open for writing)
    config_txt,       \* config_txt[s]: argument of the running save_chain_config
    diskAtStart,      \* history: the file's content when the process started
    committed,        \* history: text of the last completed save, or the text read at start
    last,             \* history: the handler that ran last, its session and outcome
    environ,          \* os.environ: the names defined in it
    inputs,           \* arguments of the current generate_podcast call
    gpc,              \* position of generate_podcast
    apiCalls,         \* requests handed to email_demo.test_api in this call
    emailCalls,       \* calls of email_demo.send_file_via_email in this call
    ret,              \* what this call of generate_podcast returned
    output_file       \* the gr.File component: value and visibility

cfgVars == <<disk, STARTING_CONFIG, editor, title, pc, config_txt,
             diskAtStart, committed, last>>
genVars == <<environ, inputs, gpc, apiCalls, emailCalls, ret, output_file>>
vars == <<cfgVars, genVars>>


\* ------------------------------------------------------------ file system

\* open(path, "w"): the file is truncated to length zero.
OpenW(content) == <<>>

\* Text mode, newline=None, writing on POSIX: "\n" becomes os.linesep, which
\* is "\n"; "\r" is written as it is.
WriteNewlines(data) == data

\* cf.write(data) and the close that flushes it: one write at offset 0 of the
\* opener's own file position; bytes of the file beyond the data stay.
FileWrite(content, data) ==
    WriteNewlines(data)
        \o SubSeq(content, Len(WriteNewlines(data)) + 1, Len(content))

\* Text mode, newline=None, reading: universal newlines. "\r\n" and a lone
\* "\r" are returned as "\n".
RECURSIVE UniversalNewlines(_)
UniversalNewlines(content) ==
    IF content = <<>> THEN <<>>
    ELSE IF Head(content) = "\r"
        THEN <<"\n">> \o UniversalNewlines(
                 IF Len(content) >= 2 /\ content[2] = "\n"
                 THEN SubSeq(content, 3, Len(content))
                 ELSE Tail(content))
    ELSE <<Head(content)>> \o UniversalNewlines(Tail(content))

\* cf.read() of the file opened with "r", encoding UTF-8.
FileRead(content) == UniversalNewlines(content)

\* ---------------------------------------------------- configuration editor

\* def read_chain_config() -> str
read_chain_config == FileRead(disk)

\* A reset that reads the file again instead of returning the snapshot.
reset_demo_Reread == FileRead(disk)

\* def reset_demo() -> str
reset_demo == STARTING_CONFIG

\* A save without the validation.
SaveRaises_Unvalidated(txt) == FALSE

\* save_chain_config's try/except around json.loads: SyntaxError is raised.
SaveRaises(txt) == ~json_loads_ok(txt)

Clean(s) == EndsWith(title[s], GREEN)
Dirty(s) == EndsWith(title[s], ORANGE)

\* What one keystroke makes of the editor's text: a character typed at the
\* end, or the last character deleted.
Keystrokes(t) ==
    {Append(t, c) : c \in IF Len(t) < MaxLen THEN Alphabet ELSE {}}
        \cup (IF Len(t) > 0 THEN {SubSeq(t, 1, Len(t) - 1)} ELSE {})

Did(op, s, res) == [op |-> op, s |-> s, res |-> res]

\* demo.load(read_chain_config, outputs=editor): the page is (re)opened.
PageLoad(s) ==
    /\ pc[s] \in {"closed", "idle"}
    /\ pc' = [pc EXCEPT ![s] = "idle"]
    /\ editor' = [editor EXCEPT ![s] = read_chain_config]
    /\ title' = [title EXCEPT ![s] = PSEUDO_FILE_NAME]
    /\ last' = Did("load", s, "ok")
    /\ UNCHANGED <<disk, STARTING_CONFIG, config_txt, diskAtStart, committed>>
    /\ UNCHANGED genVars

\* editor.input(None, js=_CONFIG_CHANGES_JS): the user changes the text.
EditorInput(s) ==
    /\ pc[s] = "idle"
    /\ \E t \in Keystrokes(editor[s]) : editor' = [editor EXCEPT ![s] = t]
    /\ title' = [title EXCEPT ![s] = CONFIG_CHANGES_JS(title[s])]
    /\ last' = Did("input", s, "ok")
    /\ UNCHANGED <<disk, STARTING_CONFIG, pc, config_txt, diskAtStart, committed>>
    /\ UNCHANGED genVars

\* undo_btn.click(read_chain_config, outputs=editor) and
\* undo_btn.click(None, js=_SAVE_CHANGES_JS)
UndoClick(s) ==
    /\ pc[s] = "idle"
    /\ editor' = [editor EXCEPT ![s] = read_chain_config]
    /\ title' = [title EXCEPT ![s] = SAVE_CHANGES_JS(title[s])]
    /\ last' = Did("undo", s, "ok")
    /\ UNCHANGED <<disk, STARTING_CONFIG, pc, config_txt, diskAtStart, committed>>
    /\ UNCHANGED genVars

\* @reset_btn.click(outputs=editor): no script is bound to this button.
ResetClick(s) ==
    /\ pc[s] = "idle"
    /\ editor' = [editor EXCEPT ![s] = reset_demo]
    /\ last' = Did("reset", s, "ok")
    /\ UNCHANGED <<disk, STARTING_CONFIG, title, pc, config_txt, diskAtStart,
                   committed>>
    /\ UNCHANGED genVars

\* save_btn.click: the script _SAVE_CHANGES_JS runs on every click, and
\* save_chain_config(editor) validates, then opens the file for writing.
SaveClick(s) ==
    /\ pc[s] = "idle"
    /\ title' = [title EXCEPT ![s] = SAVE_CHANGES_JS(title[s])]
    /\ IF SaveRaises(editor[s])
       THEN /\ last' = Did("save", s, "SyntaxError")
            /\ UNCHANGED <<disk, pc, config_txt>>
       ELSE /\ disk' = OpenW(disk)
            /\ pc' = [pc EXCEPT ![s] = "saving"]
            /\ config_txt' = [config_txt EXCEPT ![s] = editor[s]]
            /\ last' = Did("save", s, "open")
    /\ UNCHANGED <<STARTING_CONFIG, editor, diskAtStart, committed>>
    /\ UNCHANGED genVars

\* save_chain_config, leaving the with block: the text is written and the
\* file closed.
SaveWrite(s) ==
    /\ pc[s] = "saving"
    /\ disk' = FileWrite(disk, config_txt[s])
    /\ committed' = config_txt[s]
    /\ pc' = [pc EXCEPT ![s] = "idle"]
    /\ config_txt' = [config_txt EXCEPT ![s] = <<>>]
    /\ last' = Did("save", s, "ok")
    /\ UNCHANGED <<STARTING_CONFIG, editor, title, diskAtStart>>
    /\ UNCHANGED genVars

\* The content /project/models.json may have when the process starts.
StartTexts == {<<"1">>, <<"[", "\r", "]">>}

\* The dispatcher at rest.
GenIdle ==
    /\ environ = {}
    /\ inputs = [target |-> [kind |-> "none", v |-> <<>>],
                 context |-> [kind |-> "str", v |-> <<"c.pdf">>],
                 sender |-> "", recipient |-> <<>>, settings |-> <<>>,
                 uuid |-> <<>>]
    /\ gpc = "idle"
    /\ apiCalls = <<>>
    /\ emailCalls = <<>>
    /\ ret = <<>>
    /\ output_file = [value |-> <<>>, visible |-> FALSE]

\* Import of the module: _STARTING_CONFIG is read from the file; no page is
\* open yet.
InitConfig ==
    /\ disk \in StartTexts
    /\ STARTING_CONFIG = FileRead(disk)
    /\ diskAtStart = disk
    /\ committed = FileRead(disk)
    /\ editor = [s \in Sessions |-> <<>>]
    /\ title = [s \in Sessions |-> PSEUDO_FILE_NAME]
    /\ pc = [s \in Sessions |-> "closed"]
    /\ config_txt = [s \in Sessions |-> <<>>]
    /\ last = Did("import", 0, "ok")

\* One operator at one browser: handlers run one after the other.
SoloSessions == {1}

Init == InitConfig /\ GenIdle

Next ==
    \/ \E s \in SoloSessions : PageLoad(s)
    \/ \E s \in SoloSessions : EditorInput(s)
    \/ \E s \in SoloSessions : UndoClick(s)
    \/ \E s \in SoloSessions : ResetClick(s)
    \/ \E s \in SoloSessions : SaveClick(s)
    \/ \E s \in SoloSessions : SaveWrite(s)

Spec == Init /\ [][Next]_vars


\* ------------------------------------------------- podcast request dispatcher

\* Values of the two gr.File inputs: nothing uploaded, one path, a list.
NoFile == [kind |-> "none", v |-> <<>>]
OnePath(x) == [kind |-> "str", v |-> <<x>>]
PathList(xs) == [kind |-> "list", v |-> xs]

Targets == {NoFile, OnePath("t.pdf"), PathList(<<"t.pdf">>)}
Contexts == {OnePath("c.pdf"), PathList(<<"c.pdf", "d.pdf">>)}
Senders == {"", "me@x.org"}
RecipientChars == {"a", "@"}
Recipients == UNION {[1..n -> RecipientChars] : n \in 0..MaxRecipLen}
SettingsChoices ==
    {<<>>, <<"Monologue Only">>, <<"Vector Database">>,
     <<"Vector Database", "Monologue Only">>}
\* Values str(uuid.uuid4()) may return.
Uuids == {<<"0", "f">>, <<"7", "c">>}
EnvNames == {"API_SERVICE_URL", "SENDER_EMAIL_PASSWORD"}

\* if isinstance(x, str): x = [x]
Listify(x) == IF x.kind = "str" THEN PathList(x.v) ELSE x

\* A lookup with a default, os.environ.get, which never raises.
BaseUrlRaises_Defaulted == FALSE

\* os.environ["API_SERVICE_URL"] raises KeyError.
BaseUrlRaises == "API_SERVICE_URL" \notin environ

\* A test of the list being non-empty instead of the label being in it.
Monologue_Truthy(settings) == settings # <<>>

\* True if "Monologue Only" in settings else False
Monologue(settings) ==
    \E i \in 1..Len(settings) : settings[i] = "Monologue Only"

\* vdb = False
Vdb(settings) == FALSE

\* A gate that forgets the secret.
EmailGate_NoSecret(recipient) == Len(recipient) > 0

\* len(recipient) > 0 and "SENDER_EMAIL_PASSWORD" in os.environ
EmailGate(recipient) ==
    Len(recipient) > 0 /\ "SENDER_EMAIL_PASSWORD" \in environ

\* x.split('@')[0]: the text before the first "@", or all of x without one.
SplitAt0(x) ==
    LET ats == {i \in 1..Len(x) : x[i] = "@"}
    IN  IF ats = {} THEN x
        ELSE SubSeq(x, 1, (CHOOSE i \in ats : \A j \in ats : i <= j) - 1)

\* "/project/frontend/demo_outputs/" + name + "-output.mp3"
OutputPath(name) ==
    [dir |-> "/project/frontend/demo_outputs/", name |-> name,
     ext |-> "-output.mp3"]

\* [recipient] if ... else [filename + "@"]
EmailList(recipient, filename) ==
    IF EmailGate(recipient) THEN <<recipient>> ELSE <<filename \o <<"@">>>>

\* gr.update(value=..., visible=True)
Update(path) == [value |-> <<path>>, visible |-> TRUE]

GenAtRest == gpc \in {"idle", "done", "failed_env", "failed_api", "failed_email"}

\* The user changes one field of the form; the finished call is forgotten.
FormEdit ==
    /\ GenAtRest
    /\ \/ \E x \in Targets : inputs' = [inputs EXCEPT !.target = x, !.uuid = <<>>]
       \/ \E x \in Contexts : inputs' = [inputs EXCEPT !.context = x, !.uuid = <<>>]
       \/ \E x \in Senders : inputs' = [inputs EXCEPT !.sender = x, !.uuid = <<>>]
       \/ \E x \in Recipients : inputs' = [inputs EXCEPT !.recipient = x, !.uuid = <<>>]
       \/ \E x \in SettingsChoices : inputs' = [inputs EXCEPT !.settings = x, !.uuid = <<>>]
    /\ inputs' # inputs
    /\ gpc' = "idle"
    /\ apiCalls' = <<>>
    /\ emailCalls' = <<>>
    /\ ret' = <<>>
    /\ UNCHANGED <<environ, output_file>>
    /\ UNCHANGED cfgVars

\* generate_button.click: generate_podcast up to the call of test_api.
GenerateClick ==
    /\ GenAtRest
    /\ emailCalls' = <<>>
    /\ ret' = <<>>
    /\ IF BaseUrlRaises
       THEN /\ gpc' = "failed_env"
            /\ inputs' = [inputs EXCEPT !.uuid = <<>>]
            /\ apiCalls' = <<>>
       ELSE \E filename \in Uuids :
            /\ inputs' = [inputs EXCEPT !.uuid = filename]
            /\ apiCalls' =
                   <<[base_url |-> "API_SERVICE_URL",
                      target |-> Listify(inputs.target),
                      context |-> Listify(inputs.context),
                      email |-> EmailList(inputs.recipient, filename),
                      monologue |-> Monologue(inputs.settings),
                      vdb |-> Vdb(inputs.settings)]>>
            /\ gpc' = "api"
    /\ UNCHANGED <<environ, output_file>>
    /\ UNCHANGED cfgVars

\* test_api returns: the email is sent if the gate is open, else the handler
\* returns the update of output_file.
ApiReturns ==
    /\ gpc = "api"
    /\ IF EmailGate(inputs.recipient)
       THEN /\ emailCalls' =
                   <<[path |-> OutputPath(SplitAt0(inputs.recipient)),
                      sender |-> inputs.sender,
                      recipient |-> inputs.recipient]>>
            /\ gpc' = "email"
            /\ UNCHANGED <<ret, output_file>>
       ELSE /\ ret' = <<Update(OutputPath(inputs.uuid))>>
            /\ output_file' = Update(OutputPath(inputs.uuid))
            /\ gpc' = "done"
            /\ UNCHANGED emailCalls
    /\ UNCHANGED <<environ, inputs, apiCalls>>
    /\ UNCHANGED cfgVars

\* test_api raises: the exception leaves generate_podcast.
ApiRaises ==
    /\ gpc = "api"
    /\ gpc' = "failed_api"
    /\ UNCHANGED <<environ, inputs, apiCalls, emailCalls, ret, output_file>>
    /\ UNCHANGED cfgVars

\* send_file_via_email returns: the handler returns the update.
EmailReturns ==
    /\ gpc = "email"
    /\ ret' = <<Update(OutputPath(SplitAt0(inputs.recipient)))>>
    /\ output_file' = Update(OutputPath(SplitAt0(inputs.recipient)))
    /\ gpc' = "done"
    /\ UNCHANGED <<environ, inputs, apiCalls, emailCalls>>
    /\ UNCHANGED cfgVars

\* send_file_via_email raises.
EmailRaises ==
    /\ gpc = "email"
    /\ gpc' = "failed_email"
    /\ UNCHANGED <<environ, inputs, apiCalls, emailCalls, ret, output_file>>
    /\ UNCHANGED cfgVars

\* The process starts with some environment and the form as the page shows it.
InitGen ==
    /\ environ \in SUBSET EnvNames
    /\ inputs = [target |-> NoFile, context |-> OnePath("c.pdf"),
                 sender |-> "", recipient |-> <<>>, settings |-> <<>>,
                 uuid |-> <<>>]
    /\ gpc = "idle"
    /\ apiCalls = <<>>
    /\ emailCalls = <<>>
    /\ ret = <<>>
    /\ output_file = [value |-> <<>>, visible |-> FALSE]

\* The configuration editor untouched after import.
ConfigAtRest ==
    /\ InitConfig
    /\ disk = <<"1">>

NextGen ==
    \/ FormEdit
    \/ GenerateClick
    \/ ApiReturns
    \/ ApiRaises
    \/ EmailReturns
    \/ EmailRaises

InitDispatcher == ConfigAtRest /\ InitGen

SpecGen == InitDispatcher /\ [][NextGen]_vars

\* ------------------------------------------------------- two sessions saving

\* Two browsers have the page open and each has typed a text; the handlers
\* of different sessions run in different worker threads with no lock on
\* the file.
InitConc ==
    /\ disk \in StartTexts
    /\ STARTING_CONFIG = FileRead(disk)
    /\ diskAtStart = disk
    /\ committed = FileRead(disk)
    /\ editor \in [Sessions -> Texts]
    /\ title = [s \in Sessions |-> CONFIG_CHANGES_JS(PSEUDO_FILE_NAME)]
    /\ pc = [s \in Sessions |-> "idle"]
    /\ config_txt = [s \in Sessions |-> <<>>]
    /\ last = Did("input", 2, "ok")

NextConc ==
    \/ \E s \in Sessions : SaveClick(s)
    \/ \E s \in Sessions : SaveWrite(s)

InitTwoSessions == InitConc /\ GenIdle

SpecConc == InitTwoSessions /\ [][NextConc]_vars

\* C9: when two sessions save valid JSON and the saves interleave, once no
\* save is in progress the file holds exactly the text of the save that wrote
\* last: no mixture of the two texts, nothing empty or cut short.
C9_LastWriteWins ==
    (last.op = "save" /\ last.res = "ok" /\ \A s \in Sessions : pc[s] = "idle")
        => disk = committed


\* ------------------------------------------------ claims: configuration editor

SaveDone(s) == last = Did("save", s, "ok")
SaveRejected(s) == last = Did("save", s, "SyntaxError")

\* C1: a save of a text that does not parse as JSON reports a syntax error
\* and leaves the file exactly as it was before the click, at every click.
C1_RejectedSaveKeepsFile ==
    [][\A s \in Sessions :
          (pc[s] = "idle" /\ last'.op = "save" /\ last'.s = s
              /\ ~json_loads_ok(editor[s]))
          => (last'.res = "SyntaxError" /\ disk' = disk /\ pc'[s] = "idle")]_vars

C1_Witness ==
    /\ SaveRejected(1)
    /\ ~json_loads_ok(editor[1])
    /\ disk # <<>>
    /\ disk # diskAtStart

\* C2: when a save of a text that parses as JSON completes, the file holds
\* the submitted text verbatim, and a load (page load or undo) that follows
\* it directly returns exactly that text.
C2_SaveRoundTrip ==
    [][\A s \in Sessions :
          /\ (pc[s] = "saving" /\ SaveDone(s)')
                => (disk' = config_txt[s] /\ json_loads_ok(config_txt[s]))
          /\ (SaveDone(s) /\ last'.op \in {"load", "undo"} /\ last'.s = s)
                => editor'[s] = committed]_vars

C4_UndoReturnsFile ==
    last.op = "undo" => editor[last.s] = committed

\* C7 as stated: an edit leaves the marker dirty, and each of a successful
\* save, an undo and a reset leaves it clean.
C7_ResetLeavesClean ==
    \A s \in Sessions :
        last.s = s =>
            /\ last.op = "input" => Dirty(s)
            /\ (SaveDone(s) \/ last.op \in {"undo", "reset"}) => Clean(s)

\* C7 amended: an edit leaves the marker dirty, a successful save and an
\* undo leave it clean, and a reset leaves the marker as it was.
C7_ResetKeepsMarker ==
    [][\A s \in Sessions :
          last'.s = s =>
              /\ last'.op = "input" => Dirty(s)'
              /\ (SaveDone(s)' \/ last'.op = "undo") => Clean(s)'
              /\ last'.op = "reset" => title'[s] = title[s]]_vars

C7_Witness ==
    /\ last.op = "reset"
    /\ Dirty(1)
    /\ editor[1] = disk

\* C10: whenever the marker of an open page shows clean and no handler is
\* running, the editor's text equals the file's text (what text mode reads
\* from the file).
C10_CleanMeansSaved ==
    \A s \in SoloSessions :
        (pc[s] = "idle" /\ Clean(s)) => editor[s] = UniversalNewlines(disk)

\* ---------------------------------------------------------- claims: dispatcher

\* The email gate as the claim states it.
GateOpen == inputs.recipient # <<>> /\ "SENDER_EMAIL_PASSWORD" \in environ

\* p is the text of x before its first "@" (all of x when it has none).
IsTextBeforeAt(p, x) ==
    /\ Len(p) <= Len(x)
    /\ SubSeq(x, 1, Len(p)) = p
    /\ \A i \in 1..Len(p) : p[i] # "@"
    /\ Len(p) = Len(x) \/ x[Len(p) + 1] = "@"

\* C5: in a call that returns, with a recipient and the secret present the
\* artifact is named by the recipient's text before "@" and the email
\* collaborator is called exactly once, with that path; otherwise the
\* artifact is named by the random identifier. Without recipient or secret
\* the email collaborator is never called.
C5_EmailGating ==
    /\ Len(emailCalls) <= 1
    /\ ~GateOpen => emailCalls = <<>>
    /\ (gpc = "done" /\ GateOpen) =>
          /\ IsTextBeforeAt(ret[1].value[1].name, inputs.recipient)
          /\ Len(emailCalls) = 1
          /\ emailCalls[1].path = ret[1].value[1]
          /\ emailCalls[1].recipient = inputs.recipient
          /\ apiCalls[1].email = <<inputs.recipient>>
    /\ gpc \in {"email", "failed_email"} => (GateOpen /\ Len(emailCalls) = 1)
    /\ (gpc = "done" /\ ~GateOpen) =>
          /\ ret[1].value[1].name = inputs.uuid
          /\ inputs.uuid \in Uuids
          /\ IsTextBeforeAt(inputs.uuid, apiCalls[1].email[1])

C5_Witness ==
    /\ gpc = "done"
    /\ GateOpen
    /\ Len(inputs.recipient) > Len(ret[1].value[1].name)
    /\ ret[1].value[1].name # <<>>

\* C6: in every request handed to the pipeline API the monologue flag is
\* true exactly when "Monologue Only" is among the selected options, and the
\* vector-database flag is false.
C6_RequestFlags ==
    \A i \in 1..Len(apiCalls) :
        /\ apiCalls[i].monologue =
              ("Monologue Only" \in {inputs.settings[k] : k \in 1..Len(inputs.settings)})
        /\ apiCalls[i].vdb = FALSE

C6_Witness ==
    /\ Len(apiCalls) = 1
    /\ apiCalls[1].monologue
    /\ Len(inputs.settings) = 2

\* C8: the email collaborator is called and the file widget revealed only
\* after test_api has returned; without the base URL no request is made;
\* when the base URL is absent or test_api raises, no email is sent, nothing
\* is returned to the widget, and the request is not made again.
C8_OnlyAfterApiSuccess ==
    /\ emailCalls # <<>> => gpc \in {"email", "done", "failed_email"}
    /\ ret # <<>> => gpc = "done"
    /\ "API_SERVICE_URL" \notin environ => (apiCalls = <<>> /\ gpc \in {"idle", "failed_env"})
    /\ gpc \in {"email", "done", "failed_email", "failed_api", "api"} => Len(apiCalls) = 1
    /\ gpc \in {"failed_env", "failed_api"} => (emailCalls = <<>> /\ ret = <<>>)
    /\ Len(apiCalls) <= 1

C8_Witness ==
    /\ gpc = "failed_api"
    /\ GateOpen
    /\ emailCalls = <<>>
    /\ output_file.visible

====
